---- MODULE Spec2Model ----
(***************************************************************************)
(* The Trello accountability worker (worker.py): the scheduler loop, one   *)
(* pass of check_trello_tasks step by step, the stored records it reads    *)
(* and the remote system and data store it talks to.                       *)
(*                                                                         *)
(* worker.py opens `try:` at line 30 and never closes it with an `except`  *)
(* or `finally` clause.  The only handler in the file is the per-item one  *)
(* at lines 65-68, so an exception raised anywhere else in the pass has no *)
(* handler: it leaves check_trello_tasks, schedule.run_pending() and the   *)
(* `while True` loop.  CaughtPerItem states which raise sites are handled.  *)
(***************************************************************************)
EXTENDS Integers, Sequences, FiniteSets, TLC

\* ---------------------------------------------------------------- bounds
MaxCards == 2
MaxTicks == 2

\* ------------------------------------------------------------- universes
UserIds == {"u1", "u2", "ghost"}
Lists == {"todo", "doing"}
Gone == "gone"
None == "none"

VARIABLES
    users,      \* ids of the stored User documents
    creds,      \* the TrelloCredentials collection, in query order
    cards,      \* the TrelloCard collection, in query order
    remote,     \* remote[k]: the list card k is in on Trello, or Gone
    apiUp,      \* the Trello API answers
    dbUp,       \* the data store answers
    loop_pc,    \* the scheduler loop: "wait", "job" or "crashed"
    due,        \* the job's next_run has been reached
    ticks,      \* timer fires so far (the minute shown by time.ctime())
    active,     \* passes of check_trello_tasks in progress
    passes,     \* passes started so far
    pc,         \* position inside the pass
    cred_list,  \* trello_credentials, the query result of the pass
    ci,         \* index of creds in cred_list
    tracked,    \* tracked_cards of the current credential
    ki,         \* index of card_record in tracked
    card,       \* list_id of the card get_card returned, or None
    out,        \* the lines printed by the pass
    calls,      \* the remote calls issued by the pass, with their results
    lookups,    \* User and TrelloCard queries issued by the pass
    prev_sig,   \* the signals of the previous pass
    mongo_url,  \* os.environ.get("MONGO_URL"), None when absent
    connections, \* the mongoengine.connect calls made, in order
    jira,       \* the JiraCredentials collection, in query order
    reqs,       \* the connect and disconnect requests being served
    job,        \* the analyze request creating cards, if one is served
    made,       \* made[k]: who had card k created on Trello, in which list
    accounts,   \* accounts[u]: the User document registered under email u
    resp,       \* the last request of the account routes and its outcome
    confirmed,  \* the users whose verify_email request succeeded
    spent,      \* spent[u]: the reset code u's last password change used
    twin,       \* a second run of the account routes: its users, its response
    user_docs,  \* user_docs[<<n, e>>]: stored User documents named n, email e
    regs,       \* the register requests being served
    teams,      \* ids of the stored Team documents
    team_of,    \* team_of[u]: the team_id stored for user u, or None
    team_reqs,  \* the create_team and invite requests being served
    replaced,   \* the latest repeated code generation: whose code, which
                \* kind, the token it overwrote and the new code
    analysis,   \* the analyze request served: what was submitted and found,
                \* what the AI helper returned, what the route did
    issues      \* the create_jira_issues call being served

vars == <<users, creds, cards, remote, apiUp, dbUp, loop_pc, due, ticks,
          active, passes, pc, cred_list, ci, tracked, ki, card, out, calls,
          lookups, prev_sig, mongo_url, connections, jira, reqs, job, made,
          accounts, resp, confirmed, spent, twin, user_docs, regs,
          teams, team_of, team_reqs, replaced, analysis, issues>>

stored == <<users, creds, cards>>
env == <<remote, apiUp, dbUp>>
sched == <<loop_pc, due, ticks, active, passes>>
hist == <<prev_sig>>
boot == <<mongo_url, connections>>

\* What the worker's pass and scheduler loop never touch.
auth == <<accounts, resp, confirmed, spent>>

\* What only single routes of the application touch.
reg_vars == <<user_docs, regs>>
team_vars == <<teams, team_of, team_reqs>>

\* Single calls of analyze and create_jira_issues.
last == <<analysis, issues>>

\* Beyond the register requests.
later == <<team_vars, last>>

others == <<reg_vars, later>>

\* Records kept about the account routes for single specifications.
ghost == <<twin, replaced>>

extras == <<ghost, others>>

rest == <<boot, jira, reqs, job, made, auth, extras>>

\* The pass of check_trello_tasks: its position, locals and output.
pass_vars == <<pc, cred_list, ci, tracked, ki, card, out, calls, lookups>>

\* What the web application's integration routes never touch.
beside == <<users, apiUp, dbUp, sched, pass_vars, hist, boot, auth, extras>>

\* ---------------------------------------------------------------- records
Cred(u) == [user_id |-> u, token |-> u]

CardRec(k, u, l) == [card_id |-> k, user_id |-> u, list_id |-> l]

SeqsNoDup(S) ==
    {s \in UNION {[1..m -> S] : m \in 0..Cardinality(S)} :
        \A i, j \in DOMAIN s : i # j => s[i] # s[j]}

\* TrelloCredentials.user_id is unique: one record per user at most.
CredLists == {[i \in DOMAIN s |-> Cred(s[i])] : s \in SeqsNoDup(UserIds)}

\* TrelloCard.card_id is unique: card k of the collection has card_id k.
\* Every card was recorded in the list it was created in, HomeList; where it
\* is now is the remote system's state.
HomeList == "todo"

CardLists ==
    UNION {{[k \in 1..n |-> CardRec(k, own[k], HomeList)] :
                own \in [1..n -> UserIds]} :
           n \in 0..MaxCards}

\* ------------------------------------------------- requests being served
Systems == {"trello", "jira"}
Tokens == {"t1", "t2"}
ReqIds == {"r1", "r2"}

\* A stored credential: user_id and the secret (token, or api_token).
CredRec(u, t) == [user_id |-> u, token |-> t]

\* A connect or disconnect request: the route, the integration, the
\* logged-in user, the submitted secret, the position in the route, and what
\* the route's `creds` local holds: None, "new" (a document built by the
\* route), "loaded" (the stored document) or "stale" (a loaded document
\* that another request has deleted since).
Req(op, sys, u, t, at, doc) ==
    [op |-> op, sys |-> sys, user |-> u, token |-> t, at |-> at, doc |-> doc]

IdleReq == Req("idle", None, None, None, "idle", None)

\* The analyze request while it runs create_trello_cards: who asked, the
\* target list, the action items still to do, the position, and the id of
\* the card add_card returned last.
Job(u, l, n, at, id) ==
    [user |-> u, list |-> l, items |-> n, at |-> at, new_card |-> id]

IdleJob == Job(None, None, 0, "idle", 0)

Maker(u, l) == [user |-> u, list |-> l]

\* ------------------------------------------------------------- accounts
Members == {"u1", "u2"}
Passwords == {"p1", "p2"}
Codes == {"111111", "222222"}

\* generate_password_hash and check_password_hash.
Hash(p) == <<"hash", p>>

CheckHash(h, p) == h = Hash(p)

\* A six-digit code and whether utcnow() is still before its expiry.
Token(code, live) == [code |-> code, live |-> live]

NoToken == Token(None, FALSE)

Account(h, v, vt, rt) ==
    [password_hash |-> h, is_verified |-> v, verification |-> vt,
     reset |-> rt]

\* The slot of an email nobody registered.
NoAccount == Account(None, FALSE, NoToken, NoToken)

Resp(route, u, secret, result) ==
    [route |-> route, user |-> u, secret |-> secret, result |-> result]

\* --------------------------------------------------- register requests
Names == {"ann", "bob"}
RegIds == {"g1", "g2"}

\* The username an email is registered under when nothing else is said.
NameOf(e) == IF e = "u1" THEN "ann" ELSE "bob"

\* The User collection holding one document for each of the emails us.
DocsOf(us) ==
    [k \in Names \X Members |->
        IF k[2] \in us /\ k[1] = NameOf(k[2]) THEN 1 ELSE 0]

\* A register request: the submitted fields and the position in the route.
Reg(n, e, p, at) == [username |-> n, email |-> e, password |-> p, at |-> at]

IdleReg == Reg(None, None, None, "idle")

\* ----------------------------------------------------------------- teams
TeamIds == {"ta", "tb", "tc"}
TeamReqIds == {"q1", "q2"}

\* A create_team or invite request: the route, current_user as loaded for
\* the request (its id and its team_id then), the invited email.
TeamReq(op, u, mine, e) == [op |-> op, user |-> u, mine |-> mine, email |-> e]

IdleTeamReq == TeamReq("idle", None, None, None)

\* A repeated generate_reset_token or generate_verification_token call.
Regen(u, kind, old, new) == [user |-> u, kind |-> kind, old |-> old, new |-> new]

NoRegen == Regen(None, None, NoToken, None)

\* ---------------------------------------------------------------- analyze
Transcripts == {None, "", "  ", "notes"}

\* str.strip() on the transcripts at hand.
Strip(t) == IF t = "  " THEN "" ELSE t

\* Line 385: not transcript_text or not transcript_text.strip().
Blank(t) == t = None \/ t = "" \/ Strip(t) = ""

\* What the request finds in the store for current_user.  team: no team
\* ("none"), a team without a Slack webhook ("plain"), one with it
\* ("webhook").  trello: no credentials ("none"), credentials but no client
\* ("no_client"), a client but board or list not chosen ("no_target"),
\* all there ("ready").  jira: no credentials ("none"), project or issue
\* type not chosen ("no_target"), all there ("ready").
Forms ==
    [transcript : Transcripts,
     send_email : BOOLEAN, create_trello : BOOLEAN,
     send_slack : BOOLEAN, create_jira : BOOLEAN,
     team : {"none", "plain", "webhook"},
     trello : {"none", "no_client", "no_target", "ready"},
     jira : {"none", "no_target", "ready"}]

\* What model.generate_content answers: JSON for an object without an
\* error key ("json"), with one ("json_error"), for the empty object
\* ("json_empty"), for a list ("json_list"); text that is empty once
\* stripped ("blank"); text that is not JSON ("not_json"); an exception
\* ("raises").
Replies == {"json", "json_error", "json_empty", "json_list",
            "blank", "not_json", "raises"}

\* The value analyze_transcript_with_ai returns: its shape and the value
\* under its 'error' key.
Result(shape, error) == [shape |-> shape, error |-> error]

NoResult == Result(None, None)

\* analyze_transcript_with_ai, lines 121-148.
AnalyzeTranscriptWithAi(configured, reply) ==
    IF ~configured THEN Result("dict", "AI model not configured.")
    ELSE CASE reply = "blank"      -> Result("dict", "AI empty response.")
           [] reply = "not_json"   -> Result("dict", "AI JSON Parse Error")
           [] reply = "raises"     -> Result("dict", "AI Error")
           [] reply = "json"       -> Result("dict", None)
           [] reply = "json_error" -> Result("dict", "reported")
           [] reply = "json_empty" -> Result("empty", None)
           [] reply = "json_list"  -> Result("list", None)

\* Variant: the automations run on any non-empty object.
RunsAutomations_anyResult(result) == result.shape = "dict"

\* Line 392: analysis_result and not analysis_result.get('error').  The
\* empty object is falsy; on a list .get raises and the handler of line
\* 466 takes over.
RunsAutomations(result) == result.shape = "dict" /\ result.error = None

\* Lines 402-454: the automations that are carried out.
Automations(f) ==
    {a \in {"email", "trello", "slack", "jira"} :
        \/ a = "email" /\ f.send_email /\ f.team # "none"
        \/ a = "trello" /\ f.create_trello /\ f.trello = "ready"
        \/ a = "slack" /\ f.send_slack /\ f.team = "webhook"
        \/ a = "jira" /\ f.create_jira /\ f.jira = "ready"}

\* The analyze request as served.
Analysis(f, configured, reply, called, result, done) ==
    [form |-> f, configured |-> configured, reply |-> reply,
     ai_called |-> called, result |-> result, done |-> done]

NoAnalysis ==
    Analysis([transcript |-> None, send_email |-> FALSE,
              create_trello |-> FALSE, send_slack |-> FALSE,
              create_jira |-> FALSE, team |-> "none", trello |-> "none",
              jira |-> "none"],
             FALSE, None, FALSE, NoResult, {})

\* ----------------------------------------------------- create_jira_issues
\* The action items of one analysis, MaxItems at most.
MaxItems == 2

\* The value under an item's 'task' key: a text, no such key ("absent"),
\* or null.
Tasks == {"fix", "ship", "absent", "null"}

ItemLists == UNION {[1..n -> Tasks] : n \in 0..MaxItems}

\* Line 284: item.get('task', 'Untitled Meeting Task').
Summary(task) ==
    IF task = "absent" THEN "Untitled Meeting Task"
    ELSE IF task = "null" THEN None
    ELSE task

\* A create_jira_issues call: where it stands, its action items, the index
\* of the last item attempted, the locals issues_created and failed_items,
\* how each create_issue call ended (TRUE: an issue was created), and the
\* message returned.
Issues(at, items, i, created, failed, outcomes, status) ==
    [at |-> at, items |-> items, i |-> i, issues_created |-> created,
     failed_items |-> failed, outcomes |-> outcomes, status |-> status]

NoIssues == Issues("idle", <<>>, 0, 0, <<>>, <<>>, None)

\* Lines 276-279: the three early returns.
EarlyReturn(items, connected, target) ==
    IF ~connected THEN "Failed to connect to Jira."
    ELSE IF items = <<>> THEN "No action items to create."
    ELSE IF ~target THEN "Jira Project/Issue Type required."
    ELSE None

\* Variant: the loop is left at the first failure.
LoopDone_onFailure(r) == r.i = Len(r.items) \/ r.failed_items # <<>>

\* Line 283: the for loop has gone through action_items.
LoopDone(r) == r.i = Len(r.items)

OthersIdle ==
    /\ user_docs = DocsOf(users)
    /\ regs = [g \in RegIds |-> IdleReg]
    /\ teams = {}
    /\ team_of = [u \in Members |-> None]
    /\ team_reqs = [q \in TeamReqIds |-> IdleTeamReq]
    /\ replaced = NoRegen
    /\ analysis = NoAnalysis
    /\ issues = NoIssues

\* A second run of the application, as far as forgot_password depends on
\* it: the registered emails and the response to the last request.
Twin(us, r) == [users |-> us, resp |-> r]

\* The accounts of the two users the worker and the integrations know:
\* registered and verified, no code outstanding.
AuthSettled ==
    /\ accounts = [u \in Members |-> Account(Hash("p1"), TRUE, NoToken,
                                              NoToken)]
    /\ resp = Resp(None, None, None, None)
    /\ confirmed = Members
    /\ spent = [u \in Members |-> None]
    /\ twin = Twin(Members, Resp(None, None, None, None))
    /\ OthersIdle

\* ----------------------------------------------------------- output lines
Line(kind, id, lists, t) ==
    [kind |-> kind, card |-> id, named |-> lists, at |-> t]

Header(t) == Line("header", 0, {}, t)

NothingToCheck == Line("nothing", 0, {}, 0)

NoTrackedCards == Line("no_cards", 0, {}, 0)

ErrorSignal(rec) == Line("error", rec.card_id, {}, 0)

UnchangedSignal(rec) == Line("unchanged", rec.card_id, {}, 0)

\* Variant: the line names the recorded list instead of the fetched one.
MovedSignal_namesOld(rec, fetched) ==
    Line("moved", rec.card_id, {rec.list_id}, 0)

\* Line 62 prints card.name and card.get_list().name: the item and the list
\* it is in now.  card_record.list_id is not printed.
MovedSignal(rec, fetched) == Line("moved", rec.card_id, {fetched}, 0)

ItemKinds == {"moved", "unchanged", "error"}

Signals(o) == SelectSeq(o, LAMBDA s : s.kind # "header")

\* ------------------------------------------------------- the data store
\* mongoengine.connect(host=url) and mongoengine.connect('ai_meeting_agent').
Conn(db, host) == [db |-> db, host |-> host]

DefaultStore == Conn("ai_meeting_agent", "localhost")

Urls == {"mongodb://a/prod", "mongodb://b/prod"}

\* Variant: the URL is handed to connect whether or not it is set.
StoreTarget_unchecked(url) == Conn("from_url", url)

\* Lines 18-21: `if MONGO_URL:` is false for None and for the empty string.
StoreTarget(url) ==
    IF url \notin {None, ""} THEN Conn("from_url", url) ELSE DefaultStore

\* ------------------------------------------------------------------- Init
\* The state after the module body ran (lines 9-21 and 74-77): the job is
\* scheduled and nothing has been printed by a pass.  isDue, fired: whether
\* the first run is already due.
InitWith(isDue, fired) ==
    /\ users = {"u1", "u2"}
    /\ creds \in CredLists
    /\ cards \in CardLists
    /\ remote \in [DOMAIN cards -> Lists \cup {Gone}]
    /\ apiUp \in BOOLEAN
    /\ dbUp \in BOOLEAN
    /\ loop_pc = "wait"
    /\ due = isDue
    /\ ticks = fired
    /\ active = 0
    /\ passes = 0
    /\ pc = "idle"
    /\ cred_list = <<>>
    /\ ci = 0
    /\ tracked = <<>>
    /\ ki = 0
    /\ card = None
    /\ out = <<>>
    /\ calls = <<>>
    /\ lookups = 0
    /\ prev_sig = <<>>
    /\ mongo_url = None
    /\ connections = <<StoreTarget(None)>>
    /\ jira = <<>>
    /\ reqs = [r \in ReqIds |-> IdleReq]
    /\ job = IdleJob
    /\ made = [k \in DOMAIN cards |-> Maker(cards[k].user_id, HomeList)]
    /\ AuthSettled

\* ------------------------------------------------- the external systems
\* client.get_card(card_id) returns the card when Trello answers and still
\* has it, and raises otherwise.
FetchOk(k) == apiUp /\ remote[k] # Gone

\* card.get_list() is a second request (GET /lists/<id>): it raises when
\* Trello does not answer.
ListOk == apiUp

Call(op, k, res) == [op |-> op, card |-> k, res |-> res]

\* --------------------------------------------- decisions taken by the pass
\* Variant: the empty check of lines 34-36 is missing.
NoCredentials_never(cl) == FALSE

NoCredentials(cl) == cl = <<>>

\* Variant: the `if not user: continue` of lines 40-41 is missing.
UserFound_any(uid) == TRUE

UserFound(uid) == uid \in users

TrackedFor(uid) == SelectSeq(cards, LAMBDA r : r.user_id = uid)

\* Variant: the `if not tracked_cards` check of lines 51-53 is missing.
NoTracked_never(tr) == FALSE

NoTracked(tr) == tr = <<>>

\* Variant: every fetched card is reported as moved.
ListChanged_always(fetched, rec) == TRUE

ListChanged(fetched, rec) == fetched # rec.list_id

\* Variant: the per-item try/except of lines 58 and 65 is missing.
CaughtNowhere(site) == FALSE

\* What the body of the per-item try (lines 59-64) raises is caught at
\* line 65: the card fetch and the list lookup of the moved branch.
CaughtPerItem(site) == site \in {"get_card", "get_list"}

\* Variant: the item loop steps over every other record.
NextIndex_skip(k) == k + 2

\* Variant: the item loop stays on a record it has dealt with.
NextIndex_retry(k) == k

NextIndex(k) == k + 1

\* Variant: the pass stores the fetched list in the compared record.
CardsAfterCheck_writeback(cs, rec, fetched) ==
    [i \in DOMAIN cs |->
        IF cs[i].card_id = rec.card_id
        THEN [cs[i] EXCEPT !.list_id = fetched]
        ELSE cs[i]]

\* Variant: the pass deletes the record of a card it could not fetch.
CardsAfterError_delete(cs, rec) ==
    SelectSeq(cs, LAMBDA r : r.card_id # rec.card_id)

\* The pass saves nothing: the collection after an item was compared, and
\* after an item's error was reported, is the collection before.
CardsAfterCheck(cs, rec, fetched) == cs

CardsAfterError(cs, rec) == cs

\* Variant: a due job is started whether or not a pass is running.
CanRunJob_threaded == due

\* RunPending starts the job only from the loop itself, between two sleeps.
CanRunJob == loop_pc = "wait" /\ due

\* ------------------------------------------------------------ control flow
GotoCredIn(cl, i) ==
    /\ ci' = i
    /\ pc' = IF i <= Len(cl) THEN "user" ELSE "done"

GotoItemIn(tr, k) ==
    /\ ki' = k
    /\ IF k <= Len(tr)
       THEN pc' = "fetch" /\ ci' = ci
       ELSE GotoCredIn(cred_list, ci + 1)

\* An exception raised by the body of the per-item try.
ItemRaised(site, rec) ==
    IF CaughtPerItem(site)
    THEN /\ out' = Append(out, ErrorSignal(rec))
         /\ cards' = CardsAfterError(cards, rec)
         /\ GotoItemIn(tracked, NextIndex(ki))
    ELSE /\ pc' = "raised"
         /\ UNCHANGED <<out, cards, ki, ci>>

\* ------------------------------------------------------ the scheduler loop
TimerFire ==
    /\ loop_pc # "boot"
    /\ ticks < MaxTicks
    /\ ~due
    /\ due' = TRUE
    /\ ticks' = ticks + 1
    /\ UNCHANGED <<stored, env, loop_pc, active, passes, pc, cred_list, ci,
                   tracked, ki, card, out, calls, lookups, hist, rest>>

StartPass ==
    /\ CanRunJob
    /\ loop_pc' = "job"
    /\ due' = FALSE
    /\ active' = active + 1
    /\ passes' = passes + 1
    /\ pc' = "load_creds"
    /\ out' = <<Header(ticks)>>
    /\ calls' = <<>>
    /\ lookups' = 0
    /\ cred_list' = <<>>
    /\ tracked' = <<>>
    /\ ci' = 0
    /\ ki' = 0
    /\ card' = None
    /\ prev_sig' = Signals(out)
    /\ UNCHANGED <<stored, env, ticks, rest>>

PassReturn ==
    /\ loop_pc = "job"
    /\ pc = "done"
    /\ loop_pc' = "wait"
    /\ pc' = "idle"
    /\ active' = active - 1
    /\ due' = FALSE
    /\ UNCHANGED <<stored, env, ticks, passes, cred_list, ci, tracked, ki,
                   card, out, calls, lookups, hist, rest>>

PassCrash ==
    /\ loop_pc = "job"
    /\ pc = "raised"
    /\ loop_pc' = "crashed"
    /\ active' = active - 1
    /\ UNCHANGED <<stored, env, due, ticks, passes, pc, cred_list, ci,
                   tracked, ki, card, out, calls, lookups, hist, rest>>

\* ---------------------------------------------------- check_trello_tasks
LoadCreds ==
    /\ pc = "load_creds"
    /\ IF dbUp
       THEN /\ cred_list' = creds
            /\ IF NoCredentials(creds)
               THEN /\ out' = Append(out, NothingToCheck)
                    /\ pc' = "done"
                    /\ ci' = ci
               ELSE /\ out' = out
                    /\ GotoCredIn(creds, 1)
       ELSE /\ pc' = "raised"
            /\ UNCHANGED <<cred_list, out, ci>>
    /\ UNCHANGED <<stored, env, sched, tracked, ki, card, calls, lookups, hist, rest>>

LookupUser ==
    /\ pc = "user"
    /\ lookups' = lookups + 1
    /\ IF dbUp
       THEN IF UserFound(cred_list[ci].user_id)
            THEN pc' = "cards" /\ ci' = ci
            ELSE GotoCredIn(cred_list, ci + 1)
       ELSE pc' = "raised" /\ ci' = ci
    /\ UNCHANGED <<stored, env, sched, cred_list, tracked, ki, card, out,
                   calls, hist, rest>>

LoadCards ==
    /\ pc = "cards"
    /\ lookups' = lookups + 1
    /\ IF dbUp
       THEN LET tr == TrackedFor(cred_list[ci].user_id)
            IN /\ tracked' = tr
               /\ IF NoTracked(tr)
                  THEN /\ out' = Append(out, NoTrackedCards)
                       /\ ki' = 0
                       /\ GotoCredIn(cred_list, ci + 1)
                  ELSE /\ out' = out
                       /\ GotoItemIn(tr, 1)
       ELSE /\ pc' = "raised"
            /\ UNCHANGED <<tracked, out, ki, ci>>
    /\ UNCHANGED <<stored, env, sched, cred_list, card, calls, hist, rest>>

GetCard ==
    /\ pc = "fetch"
    /\ LET rec == tracked[ki]
       IN IF FetchOk(rec.card_id)
          THEN /\ card' = remote[rec.card_id]
               /\ calls' = Append(calls, Call("get_card", rec.card_id,
                                              remote[rec.card_id]))
               /\ pc' = "check"
               /\ UNCHANGED <<out, cards, ki, ci>>
          ELSE /\ card' = None
               /\ calls' = Append(calls, Call("get_card", rec.card_id, "fail"))
               /\ ItemRaised("get_card", rec)
    /\ UNCHANGED <<users, creds, env, sched, cred_list, tracked, lookups, hist, rest>>

CheckCard ==
    /\ pc = "check"
    /\ card' = None
    /\ LET rec == tracked[ki]
       IN IF ListChanged(card, rec)
          THEN IF ListOk
               THEN /\ calls' = Append(calls,
                                        Call("get_list", rec.card_id, "ok"))
                    /\ out' = Append(out, MovedSignal(rec, card))
                    /\ cards' = CardsAfterCheck(cards, rec, card)
                    /\ GotoItemIn(tracked, NextIndex(ki))
               ELSE /\ calls' = Append(calls,
                                        Call("get_list", rec.card_id, "fail"))
                    /\ ItemRaised("get_list", rec)
          ELSE /\ calls' = calls
               /\ out' = Append(out, UnchangedSignal(rec))
               /\ cards' = CardsAfterCheck(cards, rec, card)
               /\ GotoItemIn(tracked, NextIndex(ki))
    /\ UNCHANGED <<users, creds, env, sched, cred_list, tracked, lookups, hist, rest>>

\* --------------------------------------------------------- the environment
\* The services come and go while a pass is running or about to run.  A
\* pass reads each card's remote state once, so where the cards are is
\* drawn by Init and stands still.
EnvLive ==
    \/ loop_pc = "job"
    \/ due
    \/ job.at # "idle"
    \/ \E r \in ReqIds : reqs[r].op # "idle"

ApiFlip ==
    /\ apiUp' = ~apiUp
    /\ EnvLive
    /\ UNCHANGED <<stored, remote, dbUp, sched, pc, cred_list, ci, tracked,
                   ki, card, out, calls, lookups, hist, rest>>

DbFlip ==
    /\ dbUp' = ~dbUp
    /\ EnvLive
    /\ UNCHANGED <<stored, remote, apiUp, sched, pc, cred_list, ci, tracked,
                   ki, card, out, calls, lookups, hist, rest>>

\* One pass of the job, first due at the first minute, while the
\* environment moves.
Init == InitWith(TRUE, 1)

Next ==
    \/ StartPass
    \/ PassReturn
    \/ PassCrash
    \/ LoadCreds
    \/ LookupUser
    \/ LoadCards
    \/ GetCard
    \/ CheckCard
    \/ ApiFlip
    \/ DbFlip

Spec == Init /\ [][Next]_vars

\* The scheduler loop over several timer fires, the environment standing
\* still.
InitLoop == InitWith(FALSE, 0)

NextLoop ==
    \/ TimerFire
    \/ StartPass
    \/ PassReturn
    \/ PassCrash
    \/ LoadCreds
    \/ LookupUser
    \/ LoadCards
    \/ GetCard
    \/ CheckCard

SpecLoop == InitLoop /\ [][NextLoop]_vars

\* The module body from line 13 on: the configuration is read, the store
\* is connected, then the job is scheduled and the loop entered.  The
\* collections hold credentials and no tracked card.
ConnectStore ==
    /\ loop_pc = "boot"
    /\ connections' = Append(connections, StoreTarget(mongo_url))
    /\ loop_pc' = "wait"
    /\ UNCHANGED <<stored, env, due, ticks, active, passes, pc, cred_list, ci,
                   tracked, ki, card, out, calls, lookups, hist, mongo_url,
                   jira, reqs, job, made, auth, extras>>

InitBoot ==
    /\ users = {"u1", "u2"}
    /\ creds \in CredLists
    /\ cards = <<>>
    /\ remote = <<>>
    /\ apiUp \in BOOLEAN
    /\ dbUp \in BOOLEAN
    /\ loop_pc = "boot"
    /\ due = FALSE
    /\ ticks = 0
    /\ active = 0
    /\ passes = 0
    /\ pc = "idle"
    /\ cred_list = <<>>
    /\ ci = 0
    /\ tracked = <<>>
    /\ ki = 0
    /\ card = None
    /\ out = <<>>
    /\ calls = <<>>
    /\ lookups = 0
    /\ prev_sig = <<>>
    /\ mongo_url \in {None, ""} \cup Urls
    /\ connections = <<>>
    /\ jira = <<>>
    /\ reqs = [r \in ReqIds |-> IdleReq]
    /\ job = IdleJob
    /\ made = <<>>
    /\ AuthSettled

NextBoot ==
    \/ ConnectStore
    \/ TimerFire
    \/ StartPass
    \/ PassReturn
    \/ PassCrash
    \/ LoadCreds
    \/ LookupUser
    \/ LoadCards

SpecBoot == InitBoot /\ [][NextBoot]_vars

\* ================================================== the web application
\* ---------------------------------------------- the credential collections
Coll(sys) == IF sys = "trello" THEN creds ELSE jira

Store(sys, c) ==
    IF sys = "trello"
    THEN creds' = c /\ jira' = jira
    ELSE jira' = c /\ creds' = creds

\* objects(user_id=u).first() finds a document.
HasCred(c, u) == \E i \in DOMAIN c : c[i].user_id = u

\* Variant: user_id is declared without unique=True.
NotUnique_unindexed(c, u) == FALSE

\* user_id is unique in both collections: inserting a second document with
\* a user_id the collection holds raises NotUniqueError.
NotUnique(c, u) == HasCred(c, u)

WithToken(c, u, t) ==
    [i \in DOMAIN c |-> IF c[i].user_id = u THEN CredRec(u, t) ELSE c[i]]

Without(c, u) == SelectSeq(c, LAMBDA rec : rec.user_id # u)

Finish(r) == reqs' = [reqs EXCEPT ![r] = IdleReq]

\* ------------------------------- trello_save_token and jira_connect
\* The form is complete; trello_save_token first asks Trello for the member
\* (get_member('me')), and a failure there ends the request with a flash
\* message and no effect.
ConnectBegin(r, sys, u, t) ==
    /\ reqs[r] = IdleReq
    /\ u \in users
    /\ sys = "trello" => apiUp
    /\ reqs' = [reqs EXCEPT ![r] = Req("connect", sys, u, t, "read", None)]
    /\ UNCHANGED <<creds, jira, cards, remote, job, made, beside>>

\* ---------------------------------- trello_disconnect and jira_disconnect
DisconnectBegin(r, sys, u) ==
    /\ reqs[r] = IdleReq
    /\ u \in users
    /\ reqs' = [reqs EXCEPT ![r] = Req("disconnect", sys, u, None, "read",
                                        None)]
    /\ UNCHANGED <<creds, jira, cards, remote, job, made, beside>>

\* creds = <Credentials>.objects(user_id=...).first(), in all four routes.
\* A connect builds a new document when there is none; a disconnect has
\* nothing to do then.  A query the data store does not answer raises and
\* ends the request.
ReadCreds(r) ==
    /\ reqs[r].at = "read"
    /\ LET q == reqs[r]
       IN IF ~dbUp
          THEN Finish(r)
          ELSE IF HasCred(Coll(q.sys), q.user)
          THEN reqs' = [reqs EXCEPT ![r] =
                           [q EXCEPT !.doc = "loaded", !.at = "write"]]
          ELSE IF q.op = "connect"
          THEN reqs' = [reqs EXCEPT ![r] =
                           [q EXCEPT !.doc = "new", !.at = "write"]]
          ELSE Finish(r)
    /\ UNCHANGED <<creds, jira, cards, remote, job, made, beside>>

\* creds.save().  A new document is inserted, under the unique index; a
\* loaded one is updated by _id.  When the loaded document has been deleted
\* meanwhile the update matches no document of the user, and none comes
\* back: what mongoengine upserts then are the changed fields under the old
\* _id, without user_id, which no query by user_id finds.  Every exception
\* ends the request with no effect.
SaveCreds(r) ==
    /\ reqs[r].op = "connect"
    /\ reqs[r].at = "write"
    /\ LET q == reqs[r]
           c == Coll(q.sys)
       IN IF ~dbUp
          THEN UNCHANGED <<creds, jira>>
          ELSE IF q.doc = "new"
          THEN IF NotUnique(c, q.user)
               THEN UNCHANGED <<creds, jira>>
               ELSE Store(q.sys, Append(c, CredRec(q.user, q.token)))
          ELSE IF q.doc = "loaded"
          THEN Store(q.sys, WithToken(c, q.user, q.token))
          ELSE UNCHANGED <<creds, jira>>
    /\ Finish(r)
    /\ UNCHANGED <<cards, remote, job, made, beside>>

\* creds.delete(): by _id; the documents other requests loaded for the same
\* user are gone from then on.
DeleteCreds(r) ==
    /\ reqs[r].op = "disconnect"
    /\ reqs[r].at = "write"
    /\ LET q == reqs[r]
       IN IF dbUp /\ q.doc = "loaded"
          THEN /\ Store(q.sys, Without(Coll(q.sys), q.user))
               /\ reqs' = [o \in ReqIds |->
                    IF o = r THEN IdleReq
                    ELSE IF /\ reqs[o].sys = q.sys
                            /\ reqs[o].user = q.user
                            /\ reqs[o].doc = "loaded"
                    THEN [reqs[o] EXCEPT !.doc = "stale"]
                    ELSE reqs[o]]
          ELSE /\ UNCHANGED <<creds, jira>>
               /\ Finish(r)
    /\ UNCHANGED <<cards, remote, job, made, beside>>

\* ------------------------------------------ analyze, create_trello_cards
\* Variant: save() overwrites the records the user already has.
CardsAfterSave_overwrite(cs, rec) ==
    Append([i \in DOMAIN cs |->
               IF cs[i].user_id = rec.user_id
               THEN [cs[i] EXCEPT !.list_id = rec.list_id]
               ELSE cs[i]],
           rec)

\* db_card.save() of a new TrelloCard inserts one document.
CardsAfterSave(cs, rec) == Append(cs, rec)

\* analyze with create_trello set, a board and list chosen, and n action
\* items from the analysis: the user's credentials are read and the client
\* built (lines 428-431).  Without credentials there is nothing to create.
\* The board holds MaxCards cards at most.
AnalyzeBegin(u, l, n) ==
    /\ job = IdleJob
    /\ u \in users
    /\ Len(remote) + n <= MaxCards
    /\ dbUp
    /\ HasCred(creds, u)
    /\ job' = Job(u, l, n, "get_list", 0)
    /\ UNCHANGED <<creds, jira, cards, remote, reqs, made, beside>>

\* Line 175, and the loop test of line 177.
CreateGetList ==
    /\ job.at = "get_list"
    /\ job' = IF apiUp /\ job.items > 0
              THEN [job EXCEPT !.at = "add"]
              ELSE IdleJob
    /\ UNCHANGED <<creds, jira, cards, remote, reqs, made, beside>>

\* Line 180: target_list.add_card creates the card on Trello, or raises.
CreateAddCard ==
    /\ job.at = "add"
    /\ IF apiUp
       THEN /\ remote' = Append(remote, job.list)
            /\ made' = Append(made, Maker(job.user, job.list))
            /\ job' = [job EXCEPT !.at = "save", !.new_card = Len(remote) + 1]
       ELSE /\ job' = IdleJob
            /\ UNCHANGED <<remote, made>>
    /\ UNCHANGED <<creds, jira, cards, reqs, beside>>

\* Lines 182-191: the record is built and saved, or save() raises and the
\* handler of line 193 returns the failure message.
CreateSave ==
    /\ job.at = "save"
    /\ IF dbUp
       THEN /\ cards' = CardsAfterSave(cards,
                            CardRec(job.new_card, job.user, job.list))
            /\ job' = IF job.items > 1
                      THEN [job EXCEPT !.at = "add", !.items = job.items - 1]
                      ELSE IdleJob
       ELSE /\ job' = IdleJob
            /\ cards' = cards
    /\ UNCHANGED <<creds, jira, remote, reqs, made, beside>>

\* ------------------------------------------------------- specifications
\* A fresh installation: two registered users, empty collections.
InitEmpty(isDue, fired) ==
    /\ users = {"u1", "u2"}
    /\ creds = <<>>
    /\ cards = <<>>
    /\ remote = <<>>
    /\ apiUp \in BOOLEAN
    /\ dbUp \in BOOLEAN
    /\ loop_pc = "wait"
    /\ due = isDue
    /\ ticks = fired
    /\ active = 0
    /\ passes = 0
    /\ pc = "idle"
    /\ cred_list = <<>>
    /\ ci = 0
    /\ tracked = <<>>
    /\ ki = 0
    /\ card = None
    /\ out = <<>>
    /\ calls = <<>>
    /\ lookups = 0
    /\ prev_sig = <<>>
    /\ mongo_url = None
    /\ connections = <<StoreTarget(None)>>
    /\ jira = <<>>
    /\ reqs = [r \in ReqIds |-> IdleReq]
    /\ job = IdleJob
    /\ made = <<>>
    /\ AuthSettled

\* The integration routes, two requests at a time, the worker not running
\* and the environment standing still.
InitConn == InitEmpty(FALSE, 0)

NextConn ==
    \/ \E r \in ReqIds, sys \in Systems, u \in users, t \in Tokens :
          ConnectBegin(r, sys, u, t)
    \/ \E r \in ReqIds, sys \in Systems, u \in users :
          DisconnectBegin(r, sys, u)
    \/ \E r \in ReqIds : ReadCreds(r)
    \/ \E r \in ReqIds : SaveCreds(r)
    \/ \E r \in ReqIds : DeleteCreds(r)

SpecConn == InitConn /\ [][NextConn]_vars

\* The application and the worker side by side: Trello connects and
\* disconnects, analyze requests creating cards, and one pass of the job.
\* The pass only reads the collections, so requests and the pass take
\* turns: one request is served at a time, any number of them before the
\* job's run; the services come and go at any time.
InitApp == InitEmpty(TRUE, 1)

WebIdle == job = IdleJob /\ \A r \in ReqIds : reqs[r] = IdleReq

WorkerQuiet == pc = "idle" /\ passes = 0

NextApp ==
    \/ /\ WebIdle /\ WorkerQuiet
       /\ \E u \in users : ConnectBegin("r1", "trello", u, "t1")
    \/ /\ WebIdle /\ WorkerQuiet
       /\ \E u \in users : DisconnectBegin("r1", "trello", u)
    \/ /\ WebIdle /\ WorkerQuiet
       /\ \E u \in users, l \in Lists, n \in 0..MaxCards : AnalyzeBegin(u, l, n)
    \/ ReadCreds("r1")
    \/ SaveCreds("r1")
    \/ DeleteCreds("r1")
    \/ CreateGetList
    \/ CreateAddCard
    \/ CreateSave
    \/ WebIdle /\ StartPass
    \/ WebIdle /\ PassReturn
    \/ WebIdle /\ PassCrash
    \/ WebIdle /\ LoadCreds
    \/ WebIdle /\ LookupUser
    \/ WebIdle /\ LoadCards
    \/ WebIdle /\ GetCard
    \/ WebIdle /\ CheckCard
    \/ ApiFlip
    \/ DbFlip

SpecApp == InitApp /\ [][NextApp]_vars

\* ---------------------------------------------------- the account routes
outside_accounts == <<creds, cards, remote, apiUp, dbUp, sched, pass_vars,
                      hist, boot, jira, reqs, job, made>>

outside_auth == <<outside_accounts, extras>>

\* User.verify_email_token and User.verify_reset_token: the stored code
\* equals the submitted one and has not expired.  No code is stored as None,
\* and the routes refuse an empty submission, so None matches nothing.
VerifyEmailToken(acc, otp) ==
    acc.verification.code = otp /\ acc.verification.live

\* Variant: the flag is set and the code stays stored.
CompleteEmailVerification_keepsToken(acc) == [acc EXCEPT !.is_verified = TRUE]

\* User.complete_email_verification: the flag is set, code and expiry are
\* cleared, and the document is saved.
CompleteEmailVerification(acc) ==
    [acc EXCEPT !.is_verified = TRUE, !.verification = NoToken]

\* Variant: any submitted code passes while a reset code is unexpired.
VerifyResetToken_anyCode(acc, otp) == acc.reset.live

VerifyResetToken(acc, otp) == acc.reset.code = otp /\ acc.reset.live

\* Variant: login does not look at is_verified.
LoginOutcome_unchecked(known, acc, p) ==
    IF known /\ CheckHash(acc.password_hash, p) THEN "session" ELSE "invalid"

\* login, lines 697-723: login_user is called ("session") for a known user
\* whose password verifies and who is verified; a verified password of an
\* unverified user is sent to verify_email.
LoginOutcome(known, acc, p) ==
    IF known /\ CheckHash(acc.password_hash, p)
    THEN IF ~acc.is_verified THEN "to_verify" ELSE "session"
    ELSE "invalid"

\* Variant: the reset token is left in place after the password change.
ResetAfterChange_kept(tok) == tok

\* clear_reset_token.
ResetAfterChange(tok) == NoToken

\* Lines 588-600: user.save() of the new User, unverified by default, then
\* generate_verification_token stores a code c, unless that second save
\* fails (c = None), which register tolerates.
SaveUser(n, e, p, c) ==
    /\ user_docs' = [user_docs EXCEPT ![<<n, e>>] = @ + 1]
    /\ users' = users \cup {e}
    /\ accounts' = [accounts EXCEPT ![e] =
          Account(Hash(p), FALSE,
                  IF c = None THEN NoToken ELSE Token(c, TRUE), NoToken)]

\* register served as a whole, with valid fields, an email nobody has and
\* the username that goes with it.
Register(u, p, c) ==
    /\ u \notin users
    /\ SaveUser(NameOf(u), u, p, c)
    /\ resp' = Resp("register", u, None, "created")
    /\ UNCHANGED <<confirmed, spent, outside_accounts, ghost, regs, later>>

\* ------------------------------------------------- register, step by step
NameTaken(n) == \E e \in Members : user_docs[<<n, e>>] > 0

EmailTaken(e) == \E n \in Names : user_docs[<<n, e>>] > 0

\* Variant: username and email are declared without unique=True.
UserNotUnique_unindexed(n, e) == FALSE

\* username and email are unique (mongo_models.py:9-10): saving a second
\* document with either raises NotUniqueError.
UserNotUnique(n, e) == NameTaken(n) \/ EmailTaken(e)

\* The fields pass the validation of lines 545-568.
RegBegin(g, n, e, p) ==
    /\ regs[g] = IdleReg
    /\ regs' = [regs EXCEPT ![g] = Reg(n, e, p, "check")]
    /\ UNCHANGED <<users, auth, user_docs, ghost, outside_accounts, later>>

\* Lines 570-586: the two existence queries; a hit ends the request with
\* the message that the username or email is taken.
RegCheck(g) ==
    /\ regs[g].at = "check"
    /\ IF NameTaken(regs[g].username) \/ EmailTaken(regs[g].email)
       THEN /\ regs' = [regs EXCEPT ![g] = IdleReg]
            /\ resp' = Resp("register", regs[g].email, regs[g].username,
                            "exists")
       ELSE /\ regs' = [regs EXCEPT ![g].at = "save"]
            /\ resp' = resp
    /\ UNCHANGED <<users, accounts, confirmed, spent, user_docs, ghost,
                   outside_accounts, later>>

\* Lines 588-618: the save; NotUniqueError is caught by the handler of
\* line 611, which answers that registration failed.
RegSave(g, c) ==
    /\ regs[g].at = "save"
    /\ IF UserNotUnique(regs[g].username, regs[g].email)
       THEN /\ resp' = Resp("register", regs[g].email, regs[g].username,
                            "failed")
            /\ UNCHANGED <<users, accounts, user_docs>>
       ELSE /\ SaveUser(regs[g].username, regs[g].email, regs[g].password, c)
            /\ resp' = Resp("register", regs[g].email, regs[g].username,
                            "created")
    /\ regs' = [regs EXCEPT ![g] = IdleReg]
    /\ UNCHANGED <<confirmed, spent, ghost, outside_accounts, later>>

\* resend_verification for a known, unverified user, lines 658-667:
\* generate_verification_token stores a new code.
ResendServe(u, c) ==
    /\ u \in users
    /\ ~accounts[u].is_verified
    /\ accounts' = [accounts EXCEPT ![u].verification = Token(c, TRUE)]
    /\ resp' = Resp("resend_verification", u, None, "sent")
    /\ UNCHANGED <<users, confirmed, spent, outside_accounts, others>>

ResendVerification(u, c) == ResendServe(u, c) /\ UNCHANGED ghost

\* The same request, with the overwritten token recorded.
ResendAgain(u, c) ==
    /\ ResendServe(u, c)
    /\ replaced' = Regen(u, "verification", accounts[u].verification, c)
    /\ UNCHANGED twin

\* verify_email with a code submitted, lines 631-649.
VerifyEmail(u, otp) ==
    /\ u \in users
    /\ IF accounts[u].is_verified
       THEN /\ resp' = Resp("verify_email", u, otp, "already")
            /\ UNCHANGED <<accounts, confirmed>>
       ELSE IF VerifyEmailToken(accounts[u], otp)
       THEN /\ accounts' = [accounts EXCEPT
                                ![u] = CompleteEmailVerification(accounts[u])]
            /\ confirmed' = confirmed \cup {u}
            /\ resp' = Resp("verify_email", u, otp, "verified")
       ELSE /\ resp' = Resp("verify_email", u, otp, "invalid")
            /\ UNCHANGED <<accounts, confirmed>>
    /\ UNCHANGED <<users, spent, outside_auth>>

Login(u, p) ==
    /\ resp' = Resp("login", u, p, LoginOutcome(u \in users, accounts[u], p))
    /\ UNCHANGED <<users, accounts, confirmed, spent, outside_auth>>

\* What the requester of forgot_password sees.  A known email: the flash
\* "Password reset code sent to your email." and a redirect to
\* verify_reset_code ("sent").  An unknown one: the flash "If that email
\* exists, you will receive a reset code." and the forgot_password page
\* again ("if_exists").
ForgotOutcome(known) == IF known THEN "sent" ELSE "if_exists"

\* forgot_password with an email submitted, lines 749-761: for a known
\* email generate_reset_token stores a code.
ForgotServe(u, c) ==
    /\ IF u \in users
       THEN /\ accounts' = [accounts EXCEPT ![u].reset = Token(c, TRUE)]
            /\ spent' = [spent EXCEPT ![u] = None]
       ELSE UNCHANGED <<accounts, spent>>
    /\ resp' = Resp("forgot_password", u, None, ForgotOutcome(u \in users))
    /\ UNCHANGED <<users, confirmed, outside_accounts, others>>

ForgotPassword(u, c) == ForgotServe(u, c) /\ UNCHANGED ghost

\* The same request for a known email, with the overwritten token recorded.
ForgotAgain(u, c) ==
    /\ u \in users
    /\ ForgotServe(u, c)
    /\ replaced' = Regen(u, "reset", accounts[u].reset, c)
    /\ UNCHANGED twin

\* The same request served in both runs.
ForgotTwin(u, c) ==
    /\ ForgotServe(u, c)
    /\ twin' = [twin EXCEPT !.resp =
          Resp("forgot_password", u, None, ForgotOutcome(u \in twin.users))]
    /\ UNCHANGED replaced

\* verify_reset_code, step 1 (lines 766-781): the code is checked only.
VerifyCode(u, otp) ==
    /\ resp' = Resp("verify_code", u, otp,
                    IF u \in users /\ VerifyResetToken(accounts[u], otp)
                    THEN "code_ok" ELSE "invalid")
    /\ UNCHANGED <<users, accounts, confirmed, spent, outside_auth>>

\* verify_reset_code, step 2 (lines 783-808), all fields given.
ChangePassword(u, otp, new, confirm) ==
    /\ IF new # confirm
       THEN /\ resp' = Resp("change_password", u, otp, "mismatch")
            /\ UNCHANGED <<accounts, spent>>
       ELSE IF u \in users /\ VerifyResetToken(accounts[u], otp)
       THEN /\ accounts' = [accounts EXCEPT
                  ![u].password_hash = Hash(new),
                  ![u].reset = ResetAfterChange(accounts[u].reset)]
            /\ spent' = [spent EXCEPT ![u] = otp]
            /\ resp' = Resp("change_password", u, otp, "changed")
       ELSE /\ resp' = Resp("change_password", u, otp, "expired")
            /\ UNCHANGED <<accounts, spent>>
    /\ UNCHANGED <<users, confirmed, outside_auth>>

\* Time passes a code's expiry: 30 minutes after a verification code was
\* generated, 15 minutes after a reset code was.
VerificationExpires(u) ==
    /\ accounts[u].verification.live
    /\ accounts' = [accounts EXCEPT ![u].verification.live = FALSE]
    /\ UNCHANGED <<users, resp, confirmed, spent, outside_auth>>

ResetExpires(u) ==
    /\ accounts[u].reset.live
    /\ accounts' = [accounts EXCEPT ![u].reset.live = FALSE]
    /\ UNCHANGED <<users, resp, confirmed, spent, outside_auth>>

\* Nobody has registered; the worker and the integrations are not used.
InitAuth ==
    /\ users = {}
    /\ creds = <<>>
    /\ cards = <<>>
    /\ remote = <<>>
    /\ apiUp = TRUE
    /\ dbUp = TRUE
    /\ loop_pc = "wait"
    /\ due = FALSE
    /\ ticks = 0
    /\ active = 0
    /\ passes = 0
    /\ pc = "idle"
    /\ cred_list = <<>>
    /\ ci = 0
    /\ tracked = <<>>
    /\ ki = 0
    /\ card = None
    /\ out = <<>>
    /\ calls = <<>>
    /\ lookups = 0
    /\ prev_sig = <<>>
    /\ mongo_url = None
    /\ connections = <<StoreTarget(None)>>
    /\ jira = <<>>
    /\ reqs = [r \in ReqIds |-> IdleReq]
    /\ job = IdleJob
    /\ made = <<>>
    /\ accounts = [u \in Members |-> NoAccount]
    /\ resp = Resp(None, None, None, None)
    /\ confirmed = {}
    /\ spent = [u \in Members |-> None]
    /\ twin = Twin({}, Resp(None, None, None, None))
    /\ OthersIdle

NextAuth ==
    \/ \E u \in Members, p \in Passwords, c \in Codes \cup {None} :
          Register(u, p, c)
    \/ \E u \in Members, c \in Codes : ResendVerification(u, c)
    \/ \E u \in Members, otp \in Codes : VerifyEmail(u, otp)
    \/ \E u \in Members, p \in Passwords : Login(u, p)
    \/ \E u \in Members, c \in Codes : ForgotPassword(u, c)
    \/ \E u \in Members, otp \in Codes : VerifyCode(u, otp)
    \/ \E u \in Members, otp \in Codes, new, confirm \in Passwords :
          ChangePassword(u, otp, new, confirm)
    \/ \E u \in Members : VerificationExpires(u)
    \/ \E u \in Members : ResetExpires(u)

SpecAuth == InitAuth /\ [][NextAuth]_vars

\* The account routes that generate codes and the ones that only check
\* them, with every repeated generation recorded.
NextCodes ==
    \/ \E u \in Members, c \in Codes : Register(u, "p1", c)
    \/ \E u \in Members, c \in Codes : ResendAgain(u, c)
    \/ \E u \in Members, otp \in Codes : VerifyEmail(u, otp)
    \/ \E u \in Members, c \in Codes : ForgotAgain(u, c)
    \/ \E u \in Members, otp \in Codes : VerifyCode(u, otp)
    \/ \E u \in Members : VerificationExpires(u)
    \/ \E u \in Members : ResetExpires(u)

SpecCodes == InitAuth /\ [][NextCodes]_vars

\* Two runs side by side that differ in one email being registered or not:
\* the accounts of this run are drawn, the other run has one email more or
\* one less.  Requests that register nobody are served.
InitForgot ==
    /\ users \in SUBSET Members
    /\ \E pw \in [Members -> Passwords], vf \in [Members -> BOOLEAN] :
          accounts = [u \in Members |->
                         IF u \in users
                         THEN Account(Hash(pw[u]), vf[u], NoToken, NoToken)
                         ELSE NoAccount]
    /\ confirmed = {u \in users : accounts[u].is_verified}
    /\ resp = Resp(None, None, None, None)
    /\ spent = [u \in Members |-> None]
    /\ \E e \in Members :
          twin = Twin(IF e \in users THEN users \ {e} ELSE users \cup {e},
                      Resp(None, None, None, None))
    /\ OthersIdle
    /\ creds = <<>>
    /\ cards = <<>>
    /\ remote = <<>>
    /\ apiUp = TRUE
    /\ dbUp = TRUE
    /\ loop_pc = "wait"
    /\ due = FALSE
    /\ ticks = 0
    /\ active = 0
    /\ passes = 0
    /\ pc = "idle"
    /\ cred_list = <<>>
    /\ ci = 0
    /\ tracked = <<>>
    /\ ki = 0
    /\ card = None
    /\ out = <<>>
    /\ calls = <<>>
    /\ lookups = 0
    /\ prev_sig = <<>>
    /\ mongo_url = None
    /\ connections = <<StoreTarget(None)>>
    /\ jira = <<>>
    /\ reqs = [r \in ReqIds |-> IdleReq]
    /\ job = IdleJob
    /\ made = <<>>

NextForgot ==
    \/ \E u \in Members, c \in Codes : ForgotTwin(u, c)
    \/ \E u \in Members, otp \in Codes : VerifyCode(u, otp)
    \/ \E u \in Members, otp \in Codes, new, confirm \in Passwords :
          ChangePassword(u, otp, new, confirm)
    \/ \E u \in Members : ResetExpires(u)

SpecForgot == InitForgot /\ [][NextForgot]_vars

\* ------------------------------------------------- create_team and invite
outside_later == <<users, auth, ghost, reg_vars, outside_accounts>>

outside_team == <<outside_later, last>>

\* Flask-Login loads current_user from the store when the request comes in;
\* the route works on that copy.
TeamBegin(q, op, u, e) ==
    /\ team_reqs[q] = IdleTeamReq
    /\ u \in users
    /\ team_reqs' = [team_reqs EXCEPT ![q] = TeamReq(op, u, team_of[u], e)]
    /\ UNCHANGED <<teams, team_of, outside_team>>

\* create_team with a team name, lines 835-843: refused when the loaded
\* current_user has a team_id; else the Team is saved under a new id, which
\* is stored as current_user.team_id.
CreateTeam(q, t) ==
    /\ team_reqs[q].op = "create_team"
    /\ t \notin teams
    /\ IF team_reqs[q].mine # None
       THEN UNCHANGED <<teams, team_of>>
       ELSE /\ teams' = teams \cup {t}
            /\ team_of' = [team_of EXCEPT ![team_reqs[q].user] = t]
    /\ team_reqs' = [team_reqs EXCEPT ![q] = IdleTeamReq]
    /\ UNCHANGED outside_team

\* invite, lines 852-869: refused when the loaded current_user has no
\* team_id; the invited user is read from the store and gets the inviter's
\* team_id when it has none and is not the inviter.
Invite(q) ==
    /\ team_reqs[q].op = "invite"
    /\ LET r == team_reqs[q]
       IN team_of' =
            IF /\ r.mine # None
               /\ r.email \in users
               /\ team_of[r.email] = None
               /\ r.email # r.user
            THEN [team_of EXCEPT ![r.email] = r.mine]
            ELSE team_of
    /\ team_reqs' = [team_reqs EXCEPT ![q] = IdleTeamReq]
    /\ UNCHANGED <<teams, outside_team>>

\* Two registered users, no team, two requests at a time.
InitTeam == InitEmpty(FALSE, 0)

NextTeam ==
    \/ \E q \in TeamReqIds, u \in Members : TeamBegin(q, "create_team", u, None)
    \/ \E q \in TeamReqIds, u, e \in Members : TeamBegin(q, "invite", u, e)
    \/ \E q \in TeamReqIds, t \in TeamIds : CreateTeam(q, t)
    \/ \E q \in TeamReqIds : Invite(q)

SpecTeam == InitTeam /\ [][NextTeam]_vars

\* analyze, lines 380-473, one request: a blank transcript is answered
\* before the AI helper is called; else the helper is called, the model
\* itself only when configured, and the automations run on a result
\* without an error.
Served_analyze(f, configured, reply) ==
    IF Blank(f.transcript)
    THEN Analysis(f, configured, reply, FALSE, NoResult, {})
    ELSE LET result == AnalyzeTranscriptWithAi(configured, reply)
         IN Analysis(f, configured, reply, configured, result,
                     IF RunsAutomations(result) THEN Automations(f) ELSE {})

\* One analyze request, with what was submitted, what the store holds and
\* what the model answers drawn freely.
Analyze ==
    /\ analysis = NoAnalysis
    /\ \E f \in Forms, configured \in BOOLEAN, reply \in Replies :
          analysis' = Served_analyze(f, configured, reply)
    /\ UNCHANGED <<outside_later, team_vars, issues>>

InitAnalyze == InitEmpty(FALSE, 0)

NextAnalyze == Analyze

SpecAnalyze == InitAnalyze /\ [][NextAnalyze]_vars

\* create_jira_issues is called, lines 275-282.
JiraBegin(items, connected, target) ==
    /\ issues.at \in {"idle", "returned", "raised"}
    /\ issues' =
         IF EarlyReturn(items, connected, target) # None
         THEN Issues("returned", items, 0, 0, <<>>, <<>>,
                     EarlyReturn(items, connected, target))
         ELSE Issues("loop", items, 0, 0, <<>>, <<>>, None)
    /\ UNCHANGED <<outside_later, team_vars, analysis>>

\* One turn of the loop, lines 283-293: create_issue returns or raises.
JiraCreateIssue(ok) ==
    /\ issues.at = "loop"
    /\ ~LoopDone(issues)
    /\ LET item == issues.items[issues.i + 1]
       IN issues' = [issues EXCEPT
            !.i = @ + 1,
            !.issues_created = IF ok THEN @ + 1 ELSE @,
            !.failed_items = IF ok THEN @ ELSE Append(@, Summary(item)),
            !.outcomes = Append(@, ok)]
    /\ UNCHANGED <<outside_later, team_vars, analysis>>

\* Lines 295-298: the message; ', '.join raises on a summary that is None.
JiraReturn ==
    /\ issues.at = "loop"
    /\ LoopDone(issues)
    /\ issues' =
         IF issues.failed_items = <<>>
         THEN [issues EXCEPT !.at = "returned", !.status = "created"]
         ELSE IF \E k \in DOMAIN issues.failed_items :
                     issues.failed_items[k] = None
         THEN [issues EXCEPT !.at = "raised"]
         ELSE [issues EXCEPT !.at = "returned", !.status = "partial"]
    /\ UNCHANGED <<outside_later, team_vars, analysis>>

InitJira == InitEmpty(FALSE, 0)

NextJira ==
    \/ \E items \in ItemLists, connected, target \in BOOLEAN :
          JiraBegin(items, connected, target)
    \/ \E ok \in BOOLEAN : JiraCreateIssue(ok)
    \/ JiraReturn

SpecJira == InitJira /\ [][NextJira]_vars

\* Register requests, two at a time, on an empty User collection.
NextReg ==
    \/ \E g \in RegIds, n \in Names, e \in Members, p \in Passwords :
          RegBegin(g, n, e, p)
    \/ \E g \in RegIds : RegCheck(g)
    \/ \E g \in RegIds, c \in Codes \cup {None} : RegSave(g, c)

SpecReg == InitAuth /\ [][NextReg]_vars

\* =================================================================== claims
\* The tracked record the pass is working on.
CurRec == tracked[ki]

\* Where the pass stands once the current item is dealt with: the next item
\* of the credential, else the next credential, else the end of the pass.
PastItem ==
    IF ki < Len(tracked)
    THEN pc' = "fetch" /\ ki' = ki + 1 /\ ci' = ci
    ELSE IF ci < Len(cred_list)
         THEN pc' = "user" /\ ci' = ci + 1
         ELSE pc' = "done"

\* Where the pass stands once the current credential is dealt with.
PastCred ==
    IF ci < Len(cred_list)
    THEN pc' = "user" /\ ci' = ci + 1
    ELSE pc' = "done"

\* The step that calls client.get_card, and the step that compares the
\* fetched card with its record.
FetchStep == pc = "fetch" /\ calls' # calls

CompareStep == pc = "check" /\ card' # card

OwnerOf(k) == cards[k].user_id

\* C1: a failed card fetch prints exactly one error line for that item and
\* the pass goes on with the next item, else the next credential, else ends
\* normally; no card gets more than one item line in a pass.
C1_FailedFetchContinues ==
    /\ [][(FetchStep /\ ~FetchOk(CurRec.card_id))
            => /\ out' = Append(out, Line("error", CurRec.card_id, {}, 0))
               /\ PastItem]_vars
    /\ [](\A i, j \in DOMAIN out :
            (i # j /\ out[i].kind \in ItemKinds /\ out[j].kind \in ItemKinds)
                => out[i].card # out[j].card)

\* A pass that ended normally after an error line for one user's card and,
\* later, a line for a card of another credential's user.
C1_Witness ==
    /\ pc = "done"
    /\ \E i, j \in DOMAIN out :
        /\ i < j
        /\ out[i].kind = "error"
        /\ out[j].kind \in ItemKinds
        /\ OwnerOf(out[i].card) # OwnerOf(out[j].card)

\* C2 as stated: a fetched card whose list differs from the recorded one
\* gets exactly one "moved" line naming both the old and the new list.
C2_MovedNamesOldAndNew ==
    [][(CompareStep /\ card # CurRec.list_id)
         => \E s \in {out'[Len(out')]} :
              /\ out' = Append(out, s)
              /\ s.kind = "moved"
              /\ s.card = CurRec.card_id
              /\ {CurRec.list_id, card} \subseteq s.named]_vars

\* C2 amended: a fetched card whose list differs from the recorded one gets
\* exactly one line, never "unchanged": "moved", naming the item and the
\* list it is in now only, when the list lookup succeeds; "error" when the
\* list lookup raises.
C2_MovedOrLookupError ==
    [][(CompareStep /\ card # CurRec.list_id)
         => /\ out' = Append(out, IF ListOk
                                  THEN Line("moved", CurRec.card_id, {card}, 0)
                                  ELSE Line("error", CurRec.card_id, {}, 0))
            /\ PastItem]_vars

\* A "moved" line that names the card's present list and not the recorded
\* one.
C2_Witness ==
    \E i \in DOMAIN out :
        /\ out[i].kind = "moved"
        /\ out[i].named = {remote[out[i].card]}
        /\ cards[out[i].card].list_id \notin out[i].named

\* C3: a fetched card whose list equals the recorded one gets exactly one
\* "unchanged" line and no other line, and no further remote call.
C3_UnchangedWhenSame ==
    [][(CompareStep /\ card = CurRec.list_id)
         => /\ out' = Append(out, Line("unchanged", CurRec.card_id, {}, 0))
            /\ calls' = calls
            /\ PastItem]_vars

\* An "unchanged" line for a card that is in its recorded list.
C3_Witness ==
    \E i \in DOMAIN out :
        /\ out[i].kind = "unchanged"
        /\ remote[out[i].card] = cards[out[i].card].list_id

\* C4 as stated: an error while handling a credential outside the per-item
\* fetch (here the user query or the tracked-cards query failing) is
\* contained to that credential: when a later credential exists, the pass
\* goes on with it.
C4_CredentialErrorContained ==
    [][(pc \in {"user", "cards"} /\ lookups' # lookups /\ ~dbUp
          /\ ci < Len(cred_list))
         => (pc' = "user" /\ ci' = ci + 1)]_vars

\* C5: a credential whose user does not exist is skipped: nothing is
\* printed, no remote call is made, the pass does not raise and goes on
\* with the next credential.
C5_OrphanSkipped ==
    [][(pc = "user" /\ lookups' # lookups /\ dbUp
          /\ cred_list[ci].user_id \notin users)
         => /\ out' = out
            /\ calls' = calls
            /\ PastCred]_vars

\* A pass that ended normally, having met an orphaned credential before the
\* credential of a user whose card it reported on, and having called Trello
\* for no card of the orphaned user.
C5_Witness ==
    /\ pc = "done"
    /\ \E i, j \in DOMAIN cred_list :
        /\ i < j
        /\ cred_list[i].user_id \notin users
        /\ \E k \in DOMAIN cards : OwnerOf(k) = cred_list[i].user_id
        /\ \E n \in DOMAIN out :
            /\ out[n].kind \in ItemKinds
            /\ OwnerOf(out[n].card) = cred_list[j].user_id
    /\ \A n \in DOMAIN calls : OwnerOf(calls[n].card) \in users

\* C6: at most one pass is in progress at any time.
C6_NoOverlap == active <= 1

\* The timer fell due again while a pass was running.
C6_Witness == loop_pc = "job" /\ due /\ active = 1 /\ pc = "fetch"

\* C7: no step changes a stored record: the users, the credentials and the
\* tracked cards with their recorded lists.
C7_RecordsUntouched ==
    [][users' = users /\ creds' = creds /\ cards' = cards]_vars

\* A finished pass that printed a "moved" line and an "error" line.
C7_Witness ==
    /\ pc = "done"
    /\ \A kind \in {"moved", "error"} : \E i \in DOMAIN out : out[i].kind = kind

\* The card ids of the item lines printed for the records of tr, in order.
LinesFor(tr) ==
    LET ids == {tr[i].card_id : i \in DOMAIN tr}
        sel == SelectSeq(out, LAMBDA s : s.kind \in ItemKinds /\ s.card \in ids)
    IN [i \in DOMAIN sel |-> sel[i].card]

CardIds(tr, n) == [i \in 1..n |-> tr[i].card_id]

\* One credential with two tracked items; the first was fetched in its
\* recorded list, the second in another list.
SameThenMoved ==
    /\ pc = "done"
    /\ Len(cred_list) = 1
    /\ Len(tracked) = 2
    /\ Len(calls) >= 2
    /\ calls[1] = Call("get_card", tracked[1].card_id, tracked[1].list_id)
    /\ calls[2].op = "get_card"
    /\ calls[2].res \in Lists \ {tracked[2].list_id}

\* C8 as stated: after a pass, every credential (of an existing user) with
\* n tracked items has exactly n item lines, in item order; with the first
\* of two items unchanged and the second moved, the pass prints exactly two
\* signals, "unchanged" then "moved".
C8_OneLinePerItemOriginal ==
    /\ pc = "done"
         => \A i \in DOMAIN cred_list :
              LET tr == TrackedFor(cred_list[i].user_id)
              IN cred_list[i].user_id \in users
                   => LinesFor(tr) = CardIds(tr, Len(tr))
    /\ SameThenMoved
         => /\ Len(Signals(out)) = 2
            /\ out[2].kind = "unchanged" /\ out[2].card = tracked[1].card_id
            /\ out[3].kind = "moved" /\ out[3].card = tracked[2].card_id

\* C8 amended: for a credential whose items the pass iterates, the item
\* lines are one per item dealt with, in item order, and all n of them once
\* the loop is over; with the first of two items unchanged and the second
\* moved, the pass prints exactly two signals, "unchanged" for the first
\* and then, for the second, "moved" when its list lookup succeeds and
\* "error" when it raises.
C8_OneLinePerItem ==
    /\ LinesFor(tracked) =
         CardIds(tracked, IF pc \in {"fetch", "check"}
                          THEN ki - 1 ELSE Len(tracked))
    /\ SameThenMoved
         => /\ Len(Signals(out)) = 2
            /\ out[2] = Line("unchanged", tracked[1].card_id, {}, 0)
            /\ out[3] = IF calls[3].res = "ok"
                        THEN Line("moved", tracked[2].card_id,
                                  {calls[2].res}, 0)
                        ELSE Line("error", tracked[2].card_id, {}, 0)

\* One credential, two items: "unchanged" for the first, "moved" for the
\* second.
C8_Witness ==
    /\ SameThenMoved
    /\ out[2].kind = "unchanged"
    /\ out[3].kind = "moved"

\* C9: a pass that found no credential record ends normally having printed
\* the header and one "nothing to check" line, called Trello for nothing
\* and queried no user and no tracked card.
C9_EmptyPass ==
    (pc = "done" /\ cred_list = <<>>)
        => /\ out = <<Line("header", 0, {}, ticks), Line("nothing", 0, {}, 0)>>
           /\ calls = <<>>
           /\ lookups = 0

\* A pass over an empty credentials collection has ended.
C9_Witness ==
    /\ pc = "done"
    /\ creds = <<>>
    /\ Len(Signals(out)) = 1

\* C10: a pass that follows another, nothing having changed, prints the
\* signals the one before printed.
C10_SameSignalsAgain ==
    (pc = "done" /\ passes >= 2) => Signals(out) = prev_sig

\* A second pass has ended, and it reported again a card the first one had
\* reported as moved.
C10_Witness ==
    /\ pc = "done"
    /\ passes >= 2
    /\ \E i \in DOMAIN prev_sig :
        /\ prev_sig[i].kind = "moved"
        /\ Signals(out)[i].kind = "moved"

\* The cards the pass has called op for, in call order.
CalledFor(op) ==
    LET sel == SelectSeq(calls, LAMBDA c : c.op = op)
    IN [i \in DOMAIN sel |-> sel[i].card]

\* The cards of tr among those the pass has fetched, in call order.
FetchedOf(tr) ==
    LET ids == {tr[i].card_id : i \in DOMAIN tr}
        sel == SelectSeq(calls, LAMBDA c : c.op = "get_card" /\ c.card \in ids)
    IN [i \in DOMAIN sel |-> sel[i].card]

NoRepeat(s) == \A i, j \in DOMAIN s : i # j => s[i] # s[j]

\* C11 as stated: the pass issues exactly one remote call per tracked item
\* it iterates, the card fetch, and no other remote call.
C11_OnlyOneFetchPerItem ==
    /\ \A n \in DOMAIN calls : calls[n].op = "get_card"
    /\ NoRepeat(CalledFor("get_card"))

\* C11 amended: the pass fetches each item it iterates exactly once, in item
\* order, and never again; the only other remote call is one list lookup
\* for an item fetched in a list other than the recorded one, right after
\* its fetch; both calls are reads.
C11_OneFetchPlusListLookup ==
    /\ \A n \in DOMAIN calls : calls[n].op \in {"get_card", "get_list"}
    /\ NoRepeat(CalledFor("get_card"))
    /\ NoRepeat(CalledFor("get_list"))
    /\ FetchedOf(tracked) =
         CardIds(tracked, IF pc = "fetch" THEN ki - 1
                          ELSE IF pc = "check" THEN ki ELSE Len(tracked))
    /\ \A n \in DOMAIN calls :
         calls[n].op = "get_list"
           => /\ n > 1
              /\ calls[n - 1].op = "get_card"
              /\ calls[n - 1].card = calls[n].card
              /\ calls[n - 1].res \in Lists \ {cards[calls[n].card].list_id}
    /\ \A n \in DOMAIN calls :
         (calls[n].op = "get_card" /\ calls[n].res \in Lists
            /\ calls[n].res # cards[calls[n].card].list_id
            /\ ~(pc = "check" /\ n = Len(calls)))
           => /\ n < Len(calls)
              /\ calls[n + 1].op = "get_list"

\* A finished pass that fetched two items, the first of them failing, and
\* looked up the list of the second.
C11_Witness ==
    /\ pc = "done"
    /\ Len(calls) = 3
    /\ calls[1].op = "get_card" /\ calls[1].res = "fail"
    /\ calls[2].op = "get_card"
    /\ calls[3].op = "get_list"

\* C12 as stated: no error raised in a pass ends the worker process.
C12_WorkerKeepsRunning == loop_pc # "crashed"

\* C17: a credential whose user has no tracked card gets one "no tracked
\* cards" line and no remote call, and the pass goes on with the next
\* credential.
C17_NoCardsLine ==
    [][(pc = "cards" /\ lookups' # lookups /\ dbUp
          /\ TrackedFor(cred_list[ci].user_id) = <<>>)
         => /\ out' = Append(out, Line("no_cards", 0, {}, 0))
            /\ calls' = calls
            /\ PastCred]_vars

\* A finished pass that printed the "no tracked cards" line for one
\* credential and then reported on a card of a later one.
C17_Witness ==
    /\ pc = "done"
    /\ Len(calls) > 0
    /\ \E i, j \in DOMAIN out :
        /\ i < j
        /\ out[i].kind = "no_cards"
        /\ out[j].kind \in ItemKinds

\* C18: once the worker has started it has connected exactly once: to the
\* local store ai_meeting_agent when MONGO_URL is absent or empty, to the
\* host MONGO_URL names otherwise; before that it has not connected.
C18_OneConnection ==
    IF loop_pc = "boot"
    THEN connections = <<>>
    ELSE /\ Len(connections) = 1
         /\ mongo_url \in {None, ""}
              => connections[1] = Conn("ai_meeting_agent", "localhost")
         /\ mongo_url \notin {None, ""}
              => connections[1].host = mongo_url

\* The worker started with an empty MONGO_URL and has finished a pass.
C18_Witness ==
    /\ mongo_url = ""
    /\ connections = <<Conn("ai_meeting_agent", "localhost")>>
    /\ passes >= 1 /\ pc = "idle"

\* ------------------------------------------------------------------- C13
\* The users who disconnected Trello: tracked cards, no credential.  Cards
\* are only created for a user with a credential.
Disconnected ==
    {u \in users : TrackedFor(u) # <<>> /\ ~HasCred(creds, u)}

CardsOf(us) == {cards[i].card_id : i \in {j \in DOMAIN cards :
                                             cards[j].user_id \in us}}

\* The pass prints no item line and issues no remote call for the cards of
\* a user who disconnected before it.
NoSignalNoCall ==
    passes >= 1 =>
        /\ \A n \in DOMAIN out :
              out[n].kind \in ItemKinds => out[n].card \notin CardsOf(Disconnected)
        /\ \A n \in DOMAIN calls : calls[n].card \notin CardsOf(Disconnected)

\* C13: after a user disconnected Trello, the tracked cards staying
\* stored, a later pass does not fail, prints no item line and makes no
\* remote call for that user's cards.
C13_PassAfterDisconnect ==
    (passes >= 1 /\ Disconnected # {}) =>
        /\ pc # "raised"
        /\ loop_pc # "crashed"
        /\ NoSignalNoCall

\* A pass has ended normally after a user disconnected, another user's
\* card was checked.
C13_PassEnded ==
    /\ passes >= 1 /\ pc = "idle"
    /\ Disconnected # {}
    /\ \E n \in DOMAIN out : out[n].kind \in ItemKinds

\* ------------------------------------------------------------------- C14
CollNext(sys) == IF sys = "trello" THEN creds' ELSE jira'

RecordsOf(c, u) == {i \in DOMAIN c : c[i].user_id = u}

\* The step in which request r leaves its write position.
Wrote(r, op) ==
    /\ reqs[r].op = op
    /\ reqs[r].at = "write"
    /\ reqs'[r] = IdleReq

\* C14: each collection holds at most one credential record per user,
\* whatever connects and disconnects are served, two at a time; a connect
\* that found a record updates its token and adds none; a disconnect that
\* found a record leaves the user none.
C14_OneRecordPerUser ==
    /\ [](\A sys \in Systems, u \in users :
            Cardinality(RecordsOf(Coll(sys), u)) <= 1)
    /\ [][\A r \in ReqIds :
            (Wrote(r, "connect") /\ reqs[r].doc = "loaded" /\ dbUp)
              => /\ Len(CollNext(reqs[r].sys)) = Len(Coll(reqs[r].sys))
                 /\ \E i \in DOMAIN CollNext(reqs[r].sys) :
                       CollNext(reqs[r].sys)[i] =
                           CredRec(reqs[r].user, reqs[r].token)]_vars
    /\ [][\A r \in ReqIds :
            (Wrote(r, "disconnect") /\ reqs[r].doc = "loaded" /\ dbUp)
              => ~HasCred(CollNext(reqs[r].sys), reqs[r].user)]_vars

\* Two connects of one user both found no record; one has saved, the other
\* is about to.
C14_Witness ==
    \E r \in ReqIds :
        /\ reqs[r].op = "connect"
        /\ reqs[r].at = "write"
        /\ reqs[r].doc = "new"
        /\ HasCred(Coll(reqs[r].sys), reqs[r].user)

\* ------------------------------------------------------------------- C15
\* C15: once create_trello_cards has returned, every card created on
\* Trello has exactly one tracked record, with the card's id, the user who
\* had it created and the target list; and every tracked record is of a
\* card that was created.
C15_RecordIffCreated ==
    job = IdleJob =>
        /\ \A k \in DOMAIN remote :
              /\ Cardinality({i \in DOMAIN cards : cards[i].card_id = k}) = 1
              /\ \E i \in DOMAIN cards :
                    cards[i] = CardRec(k, made[k].user, made[k].list)
        /\ \A i \in DOMAIN cards : cards[i].card_id \in DOMAIN remote

\* ------------------------------------------------------------------- C16
\* C16: no step of the worker or of the application changes a stored
\* tracked record: the collection only grows at its end.
C16_RecordsNeverChange ==
    [][/\ Len(cards') >= Len(cards)
       /\ \A i \in DOMAIN cards : cards'[i] = cards[i]]_vars

\* A user had two cards created in different lists and disconnected; the
\* pass has run; both records are as they were saved.
C16_Witness ==
    /\ Len(cards) = 2
    /\ cards[1].user_id = cards[2].user_id
    /\ cards[1].list_id # cards[2].list_id
    /\ cards[1] = CardRec(1, made[1].user, made[1].list)
    /\ ~HasCred(creds, cards[1].user_id)
    /\ passes = 1 /\ pc = "idle"

\* ------------------------------------------------------------------- C19
\* The step that serves a request of the given route.
Served(route) == resp' # resp /\ resp'.route = route

\* C19: login_user is called only for a registered user whose submitted
\* password verifies and who is verified, which takes a verify_email
\* request with the stored, unexpired code; a verified password of an
\* unverified user gets the redirect to email verification and no session.
C19_LoginOnlyWhenVerified ==
    /\ [][(Served("login") /\ resp'.result = "session")
            => /\ resp'.user \in users
               /\ accounts[resp'.user].password_hash = Hash(resp'.secret)
               /\ accounts[resp'.user].is_verified
               /\ resp'.user \in confirmed]_vars
    /\ [][\A u \in Members :
            (u \in confirmed' /\ u \notin confirmed)
              => /\ Served("verify_email")
                 /\ resp'.user = u
                 /\ resp'.secret = accounts[u].verification.code
                 /\ accounts[u].verification.live]_vars
    /\ [][(/\ Served("login")
           /\ resp'.user \in users
           /\ accounts[resp'.user].password_hash = Hash(resp'.secret)
           /\ ~accounts[resp'.user].is_verified)
            => resp'.result = "to_verify"]_vars
    /\ [][\A u \in Members :
            (u \in users' /\ u \notin users) => ~accounts'[u].is_verified]_vars

\* A registered, unverified user submitted the right password and was sent
\* to email verification.
C19_Witness ==
    /\ resp.route = "login"
    /\ resp.result = "to_verify"
    /\ resp.user \in users
    /\ accounts[resp.user].password_hash = Hash(resp.secret)
    /\ ~accounts[resp.user].is_verified

\* ------------------------------------------------------------------- C20
\* C20: the change-password step changes the password only when the
\* submitted code is the stored reset code and has not expired, and it
\* clears the code; nothing else changes a registered user's password; a
\* further change-password request with the code just used is rejected and
\* changes nothing.
C20_ResetCodeOnce ==
    /\ [][(Served("change_password") /\ resp'.result = "changed")
            => /\ resp'.user \in users
               /\ resp'.secret = accounts[resp'.user].reset.code
               /\ accounts[resp'.user].reset.live
               /\ accounts'[resp'.user].reset = NoToken]_vars
    /\ [][\A u \in users :
            accounts'[u].password_hash # accounts[u].password_hash
              => /\ resp'.route = "change_password"
                 /\ resp'.result = "changed"
                 /\ resp'.user = u]_vars
    /\ [][(Served("change_password") /\ resp'.secret = spent[resp'.user])
            => /\ resp'.result \in {"expired", "mismatch"}
               /\ accounts' = accounts]_vars

\* A password was changed to p2 with a code, and the same code submitted
\* again was turned down.
C20_Witness ==
    /\ resp.route = "change_password"
    /\ resp.result = "expired"
    /\ resp.secret = spent[resp.user]
    /\ accounts[resp.user].password_hash = Hash("p2")
    /\ accounts[resp.user].reset = NoToken

\* ------------------------------------------------------------------- C21
\* C21: is_verified turns true only in a verify_email request whose code is
\* the stored verification code, unexpired; that step clears the code and
\* its expiry; and a verified user stays verified.
C21_VerifiedOnlyByCode ==
    /\ [][\A u \in Members :
            (accounts'[u].is_verified /\ ~accounts[u].is_verified)
              => /\ Served("verify_email")
                 /\ resp'.user = u
                 /\ resp'.result = "verified"
                 /\ resp'.secret = accounts[u].verification.code
                 /\ accounts[u].verification.live
                 /\ accounts'[u].verification = NoToken]_vars
    /\ [][\A u \in Members :
            accounts[u].is_verified => accounts'[u].is_verified]_vars

\* A user was verified with the stored code and has changed the password
\* with a reset code; the user is verified and no verification code is stored.
C21_Witness ==
    \E u \in users :
        /\ u \in confirmed
        /\ accounts[u].is_verified
        /\ accounts[u].verification = NoToken
        /\ spent[u] \in Codes

\* ------------------------------------------------------------------- C22
\* C22: of two runs that differ only in whether the submitted email is
\* registered, the requester of forgot_password sees the same response.
C22_SameResponse ==
    (/\ resp.route = "forgot_password"
     /\ twin.resp.route = "forgot_password"
     /\ twin.resp.user = resp.user
     /\ (resp.user \in users) # (resp.user \in twin.users))
        => twin.resp.result = resp.result

\* ------------------------------------------------------------------- C23
DocsNamed(n) == {e \in Members : user_docs[<<n, e>>] > 0}

DocsMailed(e) == {n \in Names : user_docs[<<n, e>>] > 0}

\* The step in which register request g leaves its save position.
Saved(g) == regs[g].at = "save" /\ regs'[g] = IdleReg

\* C23: no two stored users share a username or an email, whatever register
\* requests are served, two at a time; a request whose username or email
\* was taken between its existence checks and its save stores nothing and
\* answers that registration failed.
C23_UniqueUsers ==
    /\ [](/\ \A k \in Names \X Members : user_docs[k] <= 1
          /\ \A n \in Names : Cardinality(DocsNamed(n)) <= 1
          /\ \A e \in Members : Cardinality(DocsMailed(e)) <= 1)
    /\ [][\A g \in RegIds :
            (/\ Saved(g)
             /\ \/ DocsNamed(regs[g].username) # {}
                \/ DocsMailed(regs[g].email) # {})
              => /\ user_docs' = user_docs
                 /\ users' = users
                 /\ accounts' = accounts
                 /\ resp'.result = "failed"]_vars

\* Two requests with the same username passed the existence checks; one
\* has saved, the other got the failure response and stored nothing.
C23_Witness ==
    /\ resp.route = "register"
    /\ resp.result = "failed"
    /\ DocsNamed(resp.secret) # {}
    /\ resp.user \notin users

\* ------------------------------------------------------------------- C24
\* C24: a team_id, once stored for a user, is never changed by create_team
\* and invite requests, however they interleave.
C24_TeamIdNeverChanges ==
    [][\A u \in Members :
          team_of[u] # None => team_of'[u] = team_of[u]]_vars

\* ------------------------------------------------------------------- C25
\* Whether verify_reset_token or verify_email_token, by the kind of the
\* latest repeated generation, accepts otp for the user it was for.
AcceptedNow(otp) ==
    IF replaced.kind = "reset"
    THEN VerifyResetToken(accounts[replaced.user], otp)
    ELSE VerifyEmailToken(accounts[replaced.user], otp)

\* The unexpired code that the latest repeated generation overwrote is
\* rejected.
C25_OldCodeRejected ==
    (replaced.user # None /\ replaced.old.live)
        => ~AcceptedNow(replaced.old.code)

\* C25: after generate_reset_token or generate_verification_token is called
\* again for a user, verify_reset_token (verify_email_token) accepts no code
\* other than the newly generated one; the overwritten code, expired or not,
\* is accepted only when the new code equals it.
C25_OnlyNewestCode ==
    replaced.user # None
        => \A otp \in Codes \cup {replaced.old.code} :
              AcceptedNow(otp) => otp = replaced.new

\* A second reset code, different from the unexpired first, is stored, and
\* the first has just been refused.
C25_Witness ==
    /\ replaced.kind = "reset"
    /\ replaced.old.live
    /\ replaced.old.code # replaced.new
    /\ accounts[replaced.user].reset = Token(replaced.new, TRUE)
    /\ resp = Resp("verify_code", replaced.user, replaced.old.code, "invalid")

\* ------------------------------------------------------------------- C26
\* C26: analyze carries out no automation when the transcript is empty or
\* whitespace, or when analyze_transcript_with_ai returns a result with an
\* error; for an empty or whitespace transcript the AI model is not called.
C26_NoAutomationOnBlankOrError ==
    /\ Blank(analysis.form.transcript)
          => analysis.done = {} /\ ~analysis.ai_called
    /\ analysis.result.error # None => analysis.done = {}

\* Every automation was asked for and could run, the transcript has text,
\* the AI result carries an error, and nothing was carried out.
C26_Witness ==
    /\ analysis.form.transcript = "notes"
    /\ Automations(analysis.form) = {"email", "trello", "slack", "jira"}
    /\ analysis.ai_called
    /\ analysis.result.error # None
    /\ analysis.done = {}

\* ------------------------------------------------------------------- C27
\* The summaries of the items whose create_issue call raised, in order.
RECURSIVE FailedNames(_, _)
FailedNames(items, outcomes) ==
    IF outcomes = <<>> THEN <<>>
    ELSE LET n == Len(outcomes)
             before == FailedNames(items, SubSeq(outcomes, 1, n - 1))
         IN IF outcomes[n] THEN before
            ELSE Append(before, Summary(items[n]))

\* The call went through the loop and returned its message.
LoopReturned ==
    issues.at = "returned" /\ issues.status \in {"created", "partial"}

\* C27: when create_jira_issues returns after its loop, create_issue was
\* attempted for every action item, issues created plus items reported as
\* failed is the number of action items, and the failure list names, in
\* order, exactly the items whose create_issue call raised.
C27_EveryItemAttempted ==
    LoopReturned =>
        /\ Len(issues.outcomes) = Len(issues.items)
        /\ issues.issues_created + Len(issues.failed_items)
              = Len(issues.items)
        /\ issues.failed_items = FailedNames(issues.items, issues.outcomes)

\* The first item failed, the one after it was still created, and the
\* failure list names the first only.
C27_Witness ==
    /\ LoopReturned
    /\ issues.items = <<"fix", "ship">>
    /\ issues.outcomes = <<FALSE, TRUE>>
    /\ issues.issues_created = 1
    /\ issues.failed_items = <<"fix">>

====
